---- MODULE Spec2Model ----
(***************************************************************************)
(* Model of blobuploader's client, src/blobberc.py: one call of            *)
(* upload_file(hosts, filename, branch, auth, hashalgo, blobhash,          *)
(* attempts), with the blob servers, the S3 store and the file system as   *)
(* the environment.  Every blocking call of the code (filehash, the POST   *)
(* of _post_file, requests.head) is one step whose result the environment  *)
(* chooses.  Spec is a single call of upload_file; SpecDir is upload_dir,  *)
(* which calls upload_file once per file of a directory.                   *)
(***************************************************************************)
EXTENDS Integers, Sequences, FiniteSets, TLC

(* ------------------------------ bounds -------------------------------- *)
\* longest host list passed by the caller
MaxHosts == 3
\* largest explicit attempt budget tried besides the default
MaxAttempts == 2
\* longest host list passed to upload_dir
MaxDirHosts == 2
\* largest number of entries of the directory
MaxEntries == 3

(* ------------------------- program constants -------------------------- *)
\* attempts=10, the default of upload_file
DefaultAttempts == 10
\* the status a blobber answers when it accepted the blob
Accepted == 202
\* the statuses after which no other server is tried
Unauthorized == 401
Forbidden == 403

(* --------------------------- environment ------------------------------ *)
Hosts == {"H1", "H2", "H3"}
None == "None"
\* status codes a blobber may answer to the POST
StatusCodes == {200, 202, 401, 403, 500}
\* values of the x-blob-url header of a 202 answer: absent, empty, a URL
BlobUrls == {"https://cdn/x", "https://cdn/y"}
HeaderValues == {None, ""} \cup BlobUrls
\* status codes S3 may answer to the HEAD
HeadStatuses == {200, 204, 301, 404, 500}
\* attempt budgets the caller passes
AttemptChoices == (0 .. MaxAttempts) \cup {DefaultAttempts}
\* the caller's host lists: any list of hosts, repetitions included
HostLists == UNION {[1 .. k -> Hosts] : k \in 0 .. MaxHosts}

\* the host lists passed to upload_dir
DirHosts == {"H1", "H2"}
DirHostLists == UNION {[1 .. k -> DirHosts] : k \in 0 .. MaxDirHosts}
\* the directory: each entry is a regular file or a subdirectory
EntryNames == <<"a", "b", "c", "d", "e">>
DirListings == UNION {[1 .. k -> {"file", "dir"}] : k \in 0 .. MaxEntries}

Min(a, b) == IF a <= b THEN a ELSE b
Range(s) == {s[i] : i \in DOMAIN s}
\* number of positions of s that hold x
Count(s, x) == Cardinality({i \in DOMAIN s : s[i] = x})

(* ------------------------------ helpers ------------------------------- *)
\* the list objects of the call: L0 is the caller's list, L1 a fresh one
hosts == "L0"

\* the object host_pool names when it is bound to the caller's list itself
AliasOf(ref) == ref
\* hosts[:] builds a new list object
SliceCopy(ref) == "L1"

\* random.shuffle: every rearrangement of the list is possible
Shuffles(s) ==
    {p \in [DOMAIN s -> Range(s)] : \A x \in Range(s) : Count(p, x) = Count(s, x)}

\* a read of the last element that leaves it in the list
PopNoRemove(s) == [item |-> s[Len(s)], rest |-> s]
\* list.pop() takes the first element instead of the last
PopFirst(s) == [item |-> Head(s), rest |-> Tail(s)]
\* list.pop(): removes and returns the last element
Pop(s) == [item |-> s[Len(s)], rest |-> SubSeq(s, 1, Len(s) - 1)]

\* the loop test without the attempt budget
LoopCondNoBudget(cnt, budget, pool) == pool # <<>>
\* the loop test with the budget off by one
LoopCondStrict(cnt, budget, pool) == cnt < budget /\ pool # <<>>
\* while n <= attempts and host_pool
LoopCond(cnt, budget, pool) == cnt <= budget /\ pool # <<>>

\* the branch taken with 403 not recognised
ClassifyOnly401(ret_code) ==
    IF ret_code = Accepted THEN "accepted"
    ELSE IF ret_code = Unauthorized THEN "denied"
    ELSE "retry"
\* if ret_code == 202 / elif ret_code == 403 or ret_code == 401 / else
Classify(ret_code) ==
    IF ret_code = Accepted THEN "accepted"
    ELSE IF ret_code = Forbidden \/ ret_code = Unauthorized THEN "denied"
    ELSE "retry"

\* a test for None only, which lets the empty string through
NotNone(v) == v # None
\* truth value of a header value: None and the empty string are false
Truthy(v) == v # None /\ v # ""

\* success whatever the HEAD answered
OkAlways(status) == TRUE
\* success taken as 2xx only
OkOnly2xx(status) == status >= 200 /\ status < 300
\* Response.ok of requests: raise_for_status() raises for 400..599 only
Ok(status) == ~(status >= 400 /\ status < 600)

\* file_uploaded starting out true
InitialFileUploadedTrue == TRUE
\* file_uploaded = False
InitialFileUploaded == FALSE

\* the hash computed again although one was passed in
AlwaysHash(b) == TRUE
\* if blobhash is None: filehash is called
NeedsHash(b) == b = None

\* a file that opens whether it can be read or not
OpenAlways(r) == TRUE
\* open(filename, 'rb') succeeds exactly on a readable file
OpenSucceeds(r) == r

\* a handler that swallows the exception and goes on with the next host
SwallowError == "incr"
\* no try/except around the requests: the exception leaves upload_file
PropagateError == "raised"

\* the final warning issued whatever the flag says
WarnsAlways(uploaded) == TRUE
\* if not file_uploaded: the final warning
WarnsFailure(uploaded) == ~uploaded

\* the counter stepping by two
NextAttemptSkip(k) == k + 2
\* n += 1
NextAttempt(k) == k + 1

\* the arguments of the call that no step changes
branch == "branch"
auth == "auth"
hashalgo == "sha512"

\* the loop going on after the HEAD check
ContinueAfterHead == "incr"
\* the break that follows the HEAD check
BreakAfterHead == "after"

(* ------------------------------- state -------------------------------- *)
VARIABLES
    heap,           \* list objects by reference
    host_pool,      \* reference held by the local host_pool, None before it is bound
    attempts,       \* the attempt budget argument
    readable,       \* whether open(filename, 'rb') succeeds
    blobhash,       \* the blobhash argument / local
    n,              \* the attempt counter
    file_uploaded,  \* the local flag
    host,           \* the host popped for the current attempt
    blob_url,       \* the local blob_url
    pc,             \* position in upload_file
    exc,            \* the exception that left upload_file, None if none
    ret,            \* what upload_file handed to its caller
    posts,          \* POST requests sent, in order
    resps,          \* responses received to them, in order
    heads,          \* HEAD requests sent (their URLs)
    head_resps,     \* statuses received to them
    shuffled,       \* the pool as random.shuffle left it
    filehash_calls, \* the calls of filehash: the blobhash held when each was made
    filename,       \* the filename argument of upload_file
    hosts0,         \* the host list as the caller built it
    dpc,            \* position in upload_dir, "none" outside of it
    entries,        \* the kinds of the entries of the directory, by position
    dir_files,      \* the local dir_files of upload_dir
    fidx,           \* how many files the for loop of upload_dir has taken
    started,        \* the files upload_file was called for, in order
    prev_posts,     \* number of POSTs of the previous call of upload_file
    log             \* the log calls of the current call of upload_file, in order

vars == <<heap, host_pool, attempts, readable, blobhash, n, file_uploaded,
          host, blob_url, pc, exc, ret, posts, resps, heads, head_resps,
          shuffled, filehash_calls, log, filename, hosts0, dpc, entries,
          dir_files, fidx, started, prev_posts>>

\* the state of upload_dir and the arguments, which upload_file leaves alone
dirvars == <<filename, hosts0, dpc, entries, dir_files, fidx, started,
             prev_posts>>

\* the contents of the working pool
Pool == IF host_pool = None THEN <<>> ELSE heap[host_pool]

Init ==
    /\ \E l \in HostLists : heap = [r \in {hosts} |-> l] /\ hosts0 = l
    /\ filename = "file"
    /\ dpc = "none"
    /\ entries = <<>>
    /\ dir_files = <<>>
    /\ fidx = 0
    /\ started = <<>>
    /\ prev_posts = 0
    /\ host_pool = None
    /\ attempts \in AttemptChoices
    /\ readable \in BOOLEAN
    /\ blobhash \in {None, "given"}
    /\ n = 0
    /\ file_uploaded = FALSE
    /\ host = None
    /\ blob_url = None
    /\ pc = "start"
    /\ exc = None
    /\ ret = "NoReturn"
    /\ posts = <<>>
    /\ resps = <<>>
    /\ heads = <<>>
    /\ head_resps = <<>>
    /\ shuffled = <<>>
    /\ filehash_calls = <<>>
    /\ log = <<>>

\* filehash(filename, hashalgo): open() raises when the file is unreadable
HashFails ==
    /\ pc = "start"
    /\ NeedsHash(blobhash)
    /\ ~OpenSucceeds(readable)
    /\ filehash_calls' = Append(filehash_calls, blobhash)
    /\ pc' = "raised"
    /\ exc' = "IOError"
    /\ UNCHANGED <<heap, host_pool, attempts, readable, blobhash, n,
                   file_uploaded, host, blob_url, ret, posts, resps, heads,
                   head_resps, shuffled, log, dirvars>>

\* lines 36-44: the hash, the working copy, its shuffle, n and file_uploaded
Start ==
    /\ pc = "start"
    /\ NeedsHash(blobhash) => OpenSucceeds(readable)
    /\ blobhash' = IF NeedsHash(blobhash) THEN "digest" ELSE blobhash
    /\ filehash_calls' = IF NeedsHash(blobhash)
                           THEN Append(filehash_calls, blobhash)
                           ELSE filehash_calls
    /\ \E p \in Shuffles(heap[hosts]) :
         LET r == SliceCopy(hosts) IN
           /\ host_pool' = r
           /\ heap' = (r :> p) @@ heap
           /\ shuffled' = p
    /\ n' = 1
    /\ file_uploaded' = InitialFileUploaded
    /\ log' = Append(log, <<"info", "Try to upload", None>>)
    /\ pc' = "loop"
    /\ UNCHANGED <<attempts, readable, host, blob_url, exc, ret, posts,
                   resps, heads, head_resps, dirvars>>

\* lines 45-49: the loop test holds, a host is popped
PickHost ==
    /\ pc = "loop"
    /\ LoopCond(n, attempts, Pool)
    /\ LET p == Pop(Pool) IN
         /\ host' = p.item
         /\ heap' = [heap EXCEPT ![host_pool] = p.rest]
    /\ log' = log \o << <<"info", "Picked up host", host'>>,
                       <<"info", "POST call the file", None>> >>
    /\ pc' = "post"
    /\ UNCHANGED <<host_pool, attempts, readable, blobhash, n, file_uploaded,
                   blob_url, exc, ret, posts, resps, heads, head_resps,
                   shuffled, filehash_calls, dirvars>>

\* line 45: the loop test fails
LoopExit ==
    /\ pc = "loop"
    /\ ~LoopCond(n, attempts, Pool)
    /\ pc' = "after"
    /\ UNCHANGED <<heap, host_pool, attempts, readable, blobhash, n,
                   file_uploaded, host, blob_url, exc, ret, posts, resps,
                   heads, head_resps, shuffled, filehash_calls, log, dirvars>>

\* _post_file, line 86: open(filename, "rb") raises before anything is sent
PostOpenFails ==
    /\ pc = "post"
    /\ ~OpenSucceeds(readable)
    /\ pc' = "raised"
    /\ exc' = "IOError"
    /\ UNCHANGED <<heap, host_pool, attempts, readable, blobhash, n,
                   file_uploaded, host, blob_url, ret, posts, resps, heads,
                   head_resps, shuffled, filehash_calls, log, dirvars>>

\* the request of _post_file as it goes out
PostRequest ==
    [host |-> host, hashalgo |-> hashalgo, hash |-> blobhash,
     file |-> filename, branch |-> branch, auth |-> auth]

\* _post_file, line 93: requests.post raises (connection, TLS, timeout)
PostTransportError ==
    /\ pc = "post"
    /\ OpenSucceeds(readable)
    /\ posts' = Append(posts, PostRequest)
    /\ log' = Append(log, <<"debug", "Posting file", host>>)
    /\ pc' = PropagateError
    /\ exc' = "RequestException"
    /\ UNCHANGED <<heap, host_pool, attempts, readable, blobhash, n,
                   file_uploaded, host, blob_url, ret, resps, heads,
                   head_resps, shuffled, filehash_calls, dirvars>>

\* lines 50-60 and 70-74 with _post_file: the POST is answered and classified
PostResponse ==
    /\ pc = "post"
    /\ OpenSucceeds(readable)
    /\ \E status \in StatusCodes :
       \E hdr \in (IF status = Accepted THEN HeaderValues ELSE {None}) :
         LET cls == Classify(status)
             l1  == Append(log, <<"debug", "Posting file", host>>)
             l2  == IF status # Accepted
                      THEN Append(l1, <<"warning", "x-blobber-msg", None>>)
                      ELSE l1
         IN
           /\ posts' = Append(posts, PostRequest)
           /\ resps' = Append(resps, [status |-> status, url |-> hdr])
           /\ blob_url' = IF cls = "accepted" THEN hdr ELSE blob_url
           /\ \/ /\ cls = "accepted"
                 /\ Truthy(hdr)
                 /\ pc' = "head"
                 /\ log' = l2
              \/ /\ cls = "accepted"
                 /\ ~Truthy(hdr)
                 /\ pc' = "after"
                 /\ log' = Append(l2, <<"warning", "Blob resource URL not found", None>>)
              \/ /\ cls = "denied"
                 /\ pc' = "after"
                 /\ log' = l2
              \/ /\ cls = "retry"
                 /\ pc' = "incr"
                 /\ log' = Append(l2, <<"warning", "POST call failed", None>>)
    /\ UNCHANGED <<heap, host_pool, attempts, readable, blobhash, n,
                   file_uploaded, host, exc, ret, heads, head_resps, shuffled, filehash_calls, dirvars>>

\* line 76: n += 1, back to the loop test
Increment ==
    /\ pc = "incr"
    /\ n' = NextAttempt(n)
    /\ pc' = "loop"
    /\ UNCHANGED <<heap, host_pool, attempts, readable, blobhash,
                   file_uploaded, host, blob_url, exc, ret, posts, resps,
                   heads, head_resps, shuffled, filehash_calls, log, dirvars>>

\* line 62: requests.head raises
HeadTransportError ==
    /\ pc = "head"
    /\ heads' = Append(heads, blob_url)
    /\ pc' = PropagateError
    /\ exc' = "RequestException"
    /\ UNCHANGED <<heap, host_pool, attempts, readable, blobhash, n,
                   file_uploaded, host, blob_url, ret, posts, resps,
                   head_resps, shuffled, filehash_calls, log, dirvars>>

\* lines 62-69: the HEAD is answered
HeadResponse ==
    /\ pc = "head"
    /\ \E status \in HeadStatuses :
         /\ heads' = Append(heads, blob_url)
         /\ head_resps' = Append(head_resps, status)
         /\ IF Ok(status)
              THEN /\ file_uploaded' = TRUE
                   /\ log' = Append(log, <<"info", "Uploaded", blob_url>>)
              ELSE /\ file_uploaded' = file_uploaded
                   /\ log' = Append(log, <<"warning", "failed to find it to Amazon S3", None>>)
    /\ pc' = BreakAfterHead
    /\ UNCHANGED <<heap, host_pool, attempts, readable, blobhash, n, host,
                   blob_url, exc, ret, posts, resps, shuffled, filehash_calls, dirvars>>

\* lines 78-79 and the implicit return None
AfterLoop ==
    /\ pc = "after"
    /\ log' = IF WarnsFailure(file_uploaded)
                THEN Append(log, <<"warning", "Uploading file failed", None>>)
                ELSE log
    /\ ret' = None
    /\ pc' = "done"
    /\ UNCHANGED <<heap, host_pool, attempts, readable, blobhash, n,
                   file_uploaded, host, blob_url, exc, posts, resps, heads,
                   head_resps, shuffled, filehash_calls, dirvars>>

Next ==
    \/ HashFails
    \/ Start
    \/ PickHost
    \/ LoopExit
    \/ PostOpenFails
    \/ PostTransportError
    \/ PostResponse
    \/ Increment
    \/ HeadTransportError
    \/ HeadResponse
    \/ AfterLoop

Spec == Init /\ [][Next]_vars

\* upload_file is sequential code that keeps running: whichever step is
\* possible is taken, and every blocking call comes back (answer or raise)
FairSpec == Spec /\ WF_vars(Next)

(* ----------------------------- upload_dir ----------------------------- *)
\* the name of the entry at position i
EntryName(i) == EntryNames[i]
\* lines 109-110: the names of the entries that os.path.isfile accepts
RegularFiles(es) ==
    LET idx == SelectSeq([i \in DOMAIN es |-> i], LAMBDA i : es[i] = "file")
    IN  [k \in DOMAIN idx |-> EntryName(idx[k])]

InitDir ==
    /\ \E l \in DirHostLists : heap = [r \in {hosts} |-> l] /\ hosts0 = l
    /\ entries \in DirListings
    /\ dpc = "list"
    /\ dir_files = <<>>
    /\ fidx = 0
    /\ started = <<>>
    /\ prev_posts = 0
    /\ filename = None
    /\ host_pool = None
    /\ attempts = DefaultAttempts
    /\ readable = TRUE
    /\ blobhash = None
    /\ n = 0
    /\ file_uploaded = FALSE
    /\ host = None
    /\ blob_url = None
    /\ pc = "idle"
    /\ exc = None
    /\ ret = "NoReturn"
    /\ posts = <<>>
    /\ resps = <<>>
    /\ heads = <<>>
    /\ head_resps = <<>>
    /\ shuffled = <<>>
    /\ filehash_calls = <<>>
    /\ log = <<>>

\* lines 108-112: the directory is listed, subdirectories are left out
ListDir ==
    /\ dpc = "list"
    /\ dir_files' = RegularFiles(entries)
    /\ dpc' = "iter"
    /\ UNCHANGED <<heap, host_pool, attempts, readable, blobhash, n,
                   file_uploaded, host, blob_url, pc, exc, ret, posts, resps,
                   heads, head_resps, shuffled, filehash_calls, log, filename,
                   hosts0, entries, fidx, started, prev_posts>>

\* lines 113-115: the next file is taken and upload_file(hosts, filename,
\* branch, auth) is entered: no blobhash, the default budget, new locals
DirCall ==
    /\ dpc = "iter"
    /\ fidx < Len(dir_files)
    /\ fidx' = fidx + 1
    /\ filename' = dir_files[fidx + 1]
    /\ started' = Append(started, dir_files[fidx + 1])
    /\ dpc' = "call"
    /\ pc' = "start"
    /\ readable' \in BOOLEAN
    /\ blobhash' = None
    /\ attempts' = DefaultAttempts
    /\ heap' = [r \in {hosts} |-> heap[hosts]]
    /\ host_pool' = None
    /\ n' = 0
    /\ file_uploaded' = FALSE
    /\ host' = None
    /\ blob_url' = None
    /\ exc' = None
    /\ ret' = "NoReturn"
    /\ posts' = <<>>
    /\ resps' = <<>>
    /\ heads' = <<>>
    /\ head_resps' = <<>>
    /\ shuffled' = <<>>
    /\ filehash_calls' = <<>>
    /\ log' = <<>>
    /\ UNCHANGED <<hosts0, entries, dir_files, prev_posts>>

\* line 115: upload_file returned, the for loop goes on
DirReturn ==
    /\ dpc = "call"
    /\ pc = "done"
    /\ dpc' = "iter"
    /\ prev_posts' = Len(posts)
    /\ UNCHANGED <<heap, host_pool, attempts, readable, blobhash, n,
                   file_uploaded, host, blob_url, pc, exc, ret, posts, resps,
                   heads, head_resps, shuffled, filehash_calls, log, filename,
                   hosts0, entries, dir_files, fidx, started>>

\* line 115: upload_file raised; upload_dir has no handler, the exception
\* leaves the for loop and upload_dir
DirRaise ==
    /\ dpc = "call"
    /\ pc = "raised"
    /\ dpc' = "raised"
    /\ UNCHANGED <<heap, host_pool, attempts, readable, blobhash, n,
                   file_uploaded, host, blob_url, pc, exc, ret, posts, resps,
                   heads, head_resps, shuffled, filehash_calls, log, filename,
                   hosts0, entries, dir_files, fidx, started, prev_posts>>

\* line 117: the for loop is over
DirDone ==
    /\ dpc = "iter"
    /\ fidx = Len(dir_files)
    /\ dpc' = "done"
    /\ UNCHANGED <<heap, host_pool, attempts, readable, blobhash, n,
                   file_uploaded, host, blob_url, pc, exc, ret, posts, resps,
                   heads, head_resps, shuffled, filehash_calls, log, filename,
                   hosts0, entries, dir_files, fidx, started, prev_posts>>

\* upload_dir passes no blobhash, so an unreadable file already fails in
\* filehash and the open() of _post_file is not reached with one
NextDir ==
    \/ ListDir
    \/ DirCall
    \/ DirReturn
    \/ DirRaise
    \/ DirDone
    \/ HashFails
    \/ Start
    \/ PickHost
    \/ LoopExit
    \/ PostTransportError
    \/ PostResponse
    \/ Increment
    \/ HeadTransportError
    \/ HeadResponse
    \/ AfterLoop

SpecDir == InitDir /\ [][NextDir]_vars

(* ------------------------------ outcome ------------------------------- *)
\* what one call amounts to: file_uploaded at the return, or an exception
Outcome ==
    IF pc = "done" THEN (IF file_uploaded THEN "Succeeded" ELSE "Failed")
    ELSE IF pc = "raised" THEN "Raised"
    ELSE "Pending"

\* the hosts of the POSTs sent so far, in order
PostedHosts == [i \in DOMAIN posts |-> posts[i].host]
\* a host has been popped for an attempt whose POST was not sent
InHand == IF pc = "post" \/ (pc = "raised" /\ exc = "IOError" /\ host # None)
            THEN 1 ELSE 0
Stopped == pc \in {"after", "done"}

(* ------------------------------ C1 ------------------------------------ *)
\* C1 as stated: at most min(N, M) POSTs, each consuming one host of the
\* pool, and no host POSTed to twice in one call.
C1_NoHostPostedTwice ==
    /\ Len(posts) <= Min(Len(heap[hosts]), attempts)
    /\ host_pool # None => Len(Pool) + Len(posts) + InHand = Len(heap[hosts])
    /\ \A i, j \in DOMAIN posts : i # j => posts[i].host # posts[j].host

\* C1 (amended): one call sends at most min(N, M) POSTs, every POST takes
\* exactly one entry out of the working pool and none is put back, and a
\* host is POSTed to at most as many times as it occurs in the caller's
\* list (at most once when the list has no repetition), whatever the
\* servers answer.
C1_AtMostMinEachEntryOnce ==
    /\ Len(posts) <= Min(Len(heap[hosts]), attempts)
    /\ host_pool # None => Len(Pool) + Len(posts) + InHand = Len(heap[hosts])
    /\ \A h \in Hosts : Count(PostedHosts, h) <= Count(heap[hosts], h)

C1_Witness ==
    /\ pc = "done"
    /\ Len(heap[hosts]) = 3
    /\ attempts = 2
    /\ Len(posts) = 2
    /\ posts[1].host # posts[2].host
    /\ Len(Pool) = 1

(* ------------------------------ C2 ------------------------------------ *)
\* C2: a POST answered 401 or 403 is the last request of the call: no POST
\* follows it, no HEAD is sent, the loop is left at once and the outcome is
\* Failed, with hosts and budget left or not; answered to the first POST,
\* one attempt is made in all.
C2_DeniedStopsFailed ==
    \A i \in DOMAIN resps :
        resps[i].status \in {Unauthorized, Forbidden} =>
            /\ i = Len(posts)
            /\ heads = <<>>
            /\ Stopped
            /\ n = i
            /\ ~file_uploaded
            /\ pc = "done" => Outcome = "Failed"

C2_Witness ==
    /\ pc = "done"
    /\ Len(posts) = 1
    /\ resps[1].status = Forbidden
    /\ Len(Pool) >= 2
    /\ n < attempts

(* ------------------------------ C3 ------------------------------------ *)
\* C3: once a POST was answered 202 with an x-blob-url and the HEAD of that
\* URL succeeded, the call is over with Succeeded for that URL: that POST is
\* the last one, whatever hosts and budget remain.
C3_VerifiedStopsSucceeded ==
    \A i \in DOMAIN resps :
        ( /\ resps[i].status = Accepted
          /\ resps[i].url \in BlobUrls
          /\ head_resps # <<>>
          /\ head_resps[Len(head_resps)] < 400 ) =>
            /\ i = Len(posts)
            /\ heads = <<resps[i].url>>
            /\ Len(head_resps) = 1
            /\ Stopped
            /\ file_uploaded
            /\ blob_url = resps[i].url
            /\ pc = "done" => Outcome = "Succeeded"

C3_Witness ==
    /\ pc = "done"
    /\ Outcome = "Succeeded"
    /\ blob_url = "https://cdn/y"
    /\ Len(posts) = 1
    /\ Len(Pool) >= 1
    /\ n < attempts

(* ------------------------------ C4 ------------------------------------ *)
\* C4: a 202 whose x-blob-url is absent or empty ends the call with Failed:
\* no HEAD is sent and no other host is tried.
C4_NoUrlStopsFailed ==
    \A i \in DOMAIN resps :
        (resps[i].status = Accepted /\ resps[i].url \in {None, ""}) =>
            /\ i = Len(posts)
            /\ heads = <<>>
            /\ Stopped
            /\ ~file_uploaded
            /\ pc = "done" => Outcome = "Failed"

C4_Witness ==
    /\ pc = "done"
    /\ Len(posts) = 1
    /\ resps[1] = [status |-> Accepted, url |-> ""]
    /\ Len(Pool) >= 1
    /\ n < attempts

(* ------------------------------ C5 ------------------------------------ *)
\* a 202 with an x-blob-url whose HEAD was answered
HeadAnswered ==
    /\ resps # <<>>
    /\ resps[Len(resps)].status = Accepted
    /\ resps[Len(resps)].url \in BlobUrls
    /\ head_resps # <<>>

\* C5 as stated: after a 202 with an x-blob-url the outcome is Succeeded
\* exactly when the HEAD status is 2xx, and the loop stops either way.
C5_SucceededIff2xx ==
    HeadAnswered =>
        /\ Stopped
        /\ Len(posts) = Len(resps)
        /\ file_uploaded <=> (head_resps[1] >= 200 /\ head_resps[1] < 300)

\* C5 (amended): after a 202 with an x-blob-url the outcome is Succeeded
\* exactly when the HEAD response is ok for requests, that is its status is
\* not 4xx or 5xx (a 3xx answer counts as success); for 4xx and 5xx it is
\* Failed; either way the loop stops and no other host is tried.
C5_SucceededIffNotError ==
    HeadAnswered =>
        /\ Stopped
        /\ Len(posts) = Len(resps)
        /\ Len(head_resps) = 1
        /\ file_uploaded <=> ~(head_resps[1] >= 400 /\ head_resps[1] < 600)
        /\ pc = "done" =>
             Outcome = (IF head_resps[1] < 400 THEN "Succeeded" ELSE "Failed")

C5_Witness ==
    /\ pc = "done"
    /\ HeadAnswered
    /\ head_resps = <<301>>
    /\ Outcome = "Succeeded"
    /\ Len(Pool) >= 1

(* ------------------------------ C6 ------------------------------------ *)
\* every POST of the call was answered, with a status outside {202,401,403}
AllTransient ==
    /\ Len(resps) = Len(posts)
    /\ \A i \in DOMAIN resps :
         resps[i].status \notin {Accepted, Unauthorized, Forbidden}

\* C6: when every answer is transient and the list is at least as long as
\* the budget, the call makes exactly `attempts` POSTs and ends Failed.
C6_BudgetExhausted ==
    (pc = "done" /\ AllTransient /\ Len(heap[hosts]) >= attempts) =>
        /\ Len(posts) = attempts
        /\ n = attempts + 1
        /\ Outcome = "Failed"

C6_Witness ==
    /\ pc = "done"
    /\ AllTransient
    /\ attempts = 2
    /\ Len(heap[hosts]) = 3
    /\ Len(posts) = 2
    /\ resps[1].status # resps[2].status

(* ------------------------------ C7 ------------------------------------ *)
\* the example: hosts [H1, H2, H3], budget 10, H1 answers 500, H2 answers
\* 202 with x-blob-url https://cdn/x, the HEAD is answered 200
Scenario ==
    /\ heap[hosts] = <<"H1", "H2", "H3">>
    /\ attempts = DefaultAttempts
    /\ Len(resps) = Len(posts)
    /\ \A i \in DOMAIN resps :
         /\ posts[i].host = "H1" => resps[i] = [status |-> 500, url |-> None]
         /\ posts[i].host = "H2" =>
              resps[i] = [status |-> Accepted, url |-> "https://cdn/x"]
    /\ Len(head_resps) = Len(heads)
    /\ \A j \in DOMAIN head_resps : head_resps[j] = 200

ScenarioResult ==
    /\ Outcome = "Succeeded"
    /\ blob_url = "https://cdn/x"
    /\ Len(posts) = 2
    /\ n = 2
    /\ "H3" \notin Range(PostedHosts)

\* C7 as stated: in the example every execution ends Succeeded for
\* https://cdn/x after exactly 2 attempts, H3 never contacted.
C7_ExampleAlways == (pc = "done" /\ Scenario) => ScenarioResult

\* C7 (amended): in the example, when the shuffle leaves the pool as
\* [H3, H2, H1], so that H1 is popped first and H2 second, the call ends
\* Succeeded for https://cdn/x after exactly 2 attempts and H3 is never
\* contacted; under the other shuffles H2 is reached after 1 or 3 attempts
\* or H3 is contacted.
C7_ExampleWhenH1ThenH2 ==
    (pc = "done" /\ Scenario /\ shuffled = <<"H3", "H2", "H1">>) =>
        ScenarioResult

C7_Witness ==
    /\ pc = "done"
    /\ Scenario
    /\ shuffled = <<"H3", "H2", "H1">>
    /\ PostedHosts = <<"H1", "H2">>
    /\ Pool = <<"H3">>

(* ------------------------------ C8 ------------------------------------ *)
\* C8: the caller of upload_file receives the terminal outcome of the file,
\* Succeeded or Failed, and so can tell a successful upload from a failed
\* one.
C8_CallerReceivesOutcome == pc = "done" => ret = Outcome

(* ------------------------------ C9 ------------------------------------ *)
\* C9: no step of upload_file changes the caller's host list; only the
\* working copy is shuffled and shrunk.
C9_CallerListUntouched == [][heap'[hosts] = heap[hosts]]_vars

C9_Witness ==
    /\ pc \in {"done", "raised"}
    /\ shuffled # heap[hosts]
    /\ Len(posts) >= 2
    /\ Len(Pool) < Len(heap[hosts])

(* ------------------------------ C10 ----------------------------------- *)
\* C10 as stated: with an empty host list no POST and no HEAD is sent and
\* the call ends with outcome Failed.
C10_EmptyListFailed ==
    heap[hosts] = <<>> =>
        /\ posts = <<>>
        /\ heads = <<>>
        /\ pc \in {"done", "raised"} => Outcome = "Failed"

\* C10 (amended): with an empty host list no POST and no HEAD is sent and no
\* host is picked; the call ends with outcome Failed, unless no blobhash was
\* given and the file cannot be read, in which case filehash raises before
\* the list is looked at.
C10_EmptyListNoRequest ==
    heap[hosts] = <<>> =>
        /\ posts = <<>>
        /\ heads = <<>>
        /\ host = None
        /\ n <= 1
        /\ pc = "done" => Outcome = "Failed"
        /\ pc = "raised" => (exc = "IOError" /\ blobhash = None /\ ~readable)

C10_Witness ==
    /\ heap[hosts] = <<>>
    /\ pc = "done"
    /\ attempts = DefaultAttempts
    /\ Outcome = "Failed"

(* ------------------------------ C11 ----------------------------------- *)
\* requests sent that got no response
Unanswered == (Len(posts) - Len(resps)) + (Len(heads) - Len(head_resps))

\* C11: no status code of a POST or HEAD makes upload_file raise; a request
\* error is raised exactly when a request got no response, it ends the call
\* at once (nothing is retried, no other host is tried), and any other
\* exception is the I/O error of an unreadable file.
C11_OnlyTransportErrorRaises ==
    /\ [] ( /\ (exc = "RequestException") <=> (Unanswered > 0)
            /\ (exc # None) <=> (pc = "raised")
            /\ Unanswered > 0 =>
                 /\ pc = "raised"
                 /\ Unanswered = 1
                 /\ Len(resps) < Len(posts) => heads = <<>>
                 /\ ~file_uploaded
            /\ pc = "raised" =>
                 /\ exc \in {"RequestException", "IOError"}
                 /\ exc = "IOError" => ~readable )
    /\ [][pc # "raised"]_vars

C11_Witness ==
    /\ pc = "raised"
    /\ exc = "RequestException"
    /\ Len(posts) = 2
    /\ Len(resps) = 1
    /\ Pool # <<>>
    /\ n < attempts

(* ------------------------------ C12 ----------------------------------- *)
\* C12: with a file that cannot be opened no POST and no HEAD is ever sent,
\* whether the hash comes from filehash or was passed in: the first open()
\* (in filehash, or else in _post_file before requests.post) raises.
C12_UnreadableNoRequest ==
    ~readable =>
        /\ posts = <<>>
        /\ heads = <<>>
        /\ ~file_uploaded
        /\ pc = "raised" => exc = "IOError"
        /\ filehash_calls # <<>> => (pc = "raised" /\ host_pool = None)
        /\ host # None => pc \in {"post", "raised"}
        /\ pc = "done" => (Outcome = "Failed" /\ host = None)

C12_Witness ==
    /\ ~readable
    /\ blobhash = "given"
    /\ pc = "raised"
    /\ host # None
    /\ Pool # <<>>
    /\ attempts = DefaultAttempts

(* ------------------------------ C16 ----------------------------------- *)
\* the last response received is one that ends the loop
LastEndsLoop ==
    /\ resps # <<>>
    /\ resps[Len(resps)].status \in {Accepted, Unauthorized, Forbidden}
StopCause == Pool = <<>> \/ n > attempts \/ LastEndsLoop

\* C16 as stated: when every request was answered, a call that has stopped
\* has an exhausted pool, an exhausted budget, a 401/403 or a 202.
C16_StopsOnlyOnFourCauses ==
    (pc \in {"after", "done", "raised"} /\ Unanswered = 0) => StopCause

\* C16 (amended): assuming every request is answered and the file can be
\* opened, every call terminates; it stops exactly when the pool is
\* exhausted, the budget is exhausted, a 401/403 was received or a 202 was
\* received; while none of these holds another POST is issued.
C16_TerminatesAndStopsExactly ==
    /\ <>(pc \in {"done", "raised"})
    /\ [] ( /\ (pc \in {"after", "done"}) => StopCause
            /\ (pc = "raised" /\ Unanswered = 0) => ~readable
            /\ pc \in {"loop", "incr"} => ~LastEndsLoop )
    /\ [][ /\ pc = "loop" =>
                pc' = (IF n <= attempts /\ Pool # <<>> THEN "post" ELSE "after")
           /\ (pc = "post" /\ readable) => Len(posts') = Len(posts) + 1
           /\ Len(resps') > Len(resps) =>
                pc' = (IF resps'[Len(resps')].status \in {Unauthorized, Forbidden}
                         THEN "after"
                       ELSE IF resps'[Len(resps')].status # Accepted
                         THEN "incr"
                       ELSE IF resps'[Len(resps')].url \in BlobUrls
                         THEN "head"
                       ELSE "after")
           /\ pc = "incr" => pc' = "loop"
           /\ pc = "head" => pc' \in {"after", "raised"}
           /\ pc = "after" => pc' = "done" ]_vars

C16_Witness ==
    /\ pc = "done"
    /\ readable
    /\ attempts = 2
    /\ n = 3
    /\ Len(posts) = 2
    /\ Pool # <<>>
    /\ ~LastEndsLoop

(* ------------------------------ C17 ----------------------------------- *)
\* C17: the hash is fixed before the first attempt, by one call of filehash
\* when none was passed in and by no call otherwise, and every POST of the
\* call carries that hash and the same file, branch, algorithm and
\* credential: the POSTs differ in the host only.
C17_OneHashAllPosts ==
    /\ Len(filehash_calls) <= 1
    /\ \A i \in DOMAIN filehash_calls : filehash_calls[i] = None
    /\ blobhash = "given" => filehash_calls = <<>>
    /\ host_pool # None =>
         /\ blobhash \in {"given", "digest"}
         /\ blobhash = "digest" => Len(filehash_calls) = 1
    /\ \A i \in DOMAIN posts :
         /\ posts[i].hash = blobhash
         /\ [posts[i] EXCEPT !.host = None] = [posts[1] EXCEPT !.host = None]

C17_Witness ==
    /\ pc = "done"
    /\ Len(posts) = 3
    /\ blobhash = "digest"
    /\ posts[1].host # posts[2].host
    /\ posts[2].host # posts[3].host

(* ------------------------------ C18 ----------------------------------- *)
FailureWarning == <<"warning", "Uploading file failed", None>>
SuccessLogs == {i \in DOMAIN log : log[i][2] = "Uploaded"}

\* C18: a call that returns without success has logged the failure warning
\* exactly once, as its last log call; a call that returns with success has
\* logged the blob URL once and no failure warning; a call ended by an
\* exception has logged neither.
C18_OneFinalLog ==
    /\ (pc = "done" /\ ~file_uploaded) =>
          /\ Count(log, FailureWarning) = 1
          /\ log[Len(log)] = FailureWarning
          /\ SuccessLogs = {}
    /\ (pc = "done" /\ file_uploaded) =>
          /\ Count(log, FailureWarning) = 0
          /\ Cardinality(SuccessLogs) = 1
          /\ blob_url \in BlobUrls
          /\ \A i \in SuccessLogs : log[i] = <<"info", "Uploaded", blob_url>>
    /\ pc # "done" => Count(log, FailureWarning) = 0
    /\ pc = "raised" => SuccessLogs = {}

C18_Witness ==
    /\ pc = "done"
    /\ file_uploaded
    /\ Len(posts) = 2
    /\ log[Len(log)] = <<"info", "Uploaded", "https://cdn/x">>

(* ------------------------------ C19 ----------------------------------- *)
\* number of responses that were neither 202 nor 401/403
NTransient ==
    Cardinality({i \in DOMAIN resps :
        resps[i].status \notin {Accepted, Unauthorized, Forbidden}})

\* C19 as stated, read at the loop test and wherever the call has left the
\* loop: POSTed hosts and pool make up the caller's list as a multiset,
\* n is the number of transient responses plus 1, every POSTed host is in
\* the caller's list.
C19_PostedPlusPool ==
    (host_pool # None /\ pc \in {"loop", "head", "after", "done", "raised"}) =>
        /\ \A h \in Hosts :
             Count(PostedHosts, h) + Count(Pool, h) = Count(heap[hosts], h)
        /\ n = NTransient + 1
        /\ Range(PostedHosts) \subseteq Range(heap[hosts])

\* C19 (amended): once the pool is built, the hosts POSTed to, the hosts
\* still in the pool and the host popped for an attempt whose POST was not
\* sent (not yet, or never because open() raised in _post_file) make up the
\* caller's list as a multiset; n is the number of transient responses plus
\* 1, except between a transient response and the n += 1 that follows it;
\* every POSTed host is in the caller's list.
C19_PostedPlusPoolPlusHand ==
    host_pool # None =>
        /\ \A h \in Hosts :
             Count(PostedHosts, h) + Count(Pool, h)
                + (IF InHand = 1 /\ host = h THEN 1 ELSE 0)
               = Count(heap[hosts], h)
        /\ n = NTransient + (IF pc = "incr" THEN 0 ELSE 1)
        /\ Range(PostedHosts) \subseteq Range(heap[hosts])

C19_Witness ==
    /\ pc = "loop"
    /\ Len(posts) = 2
    /\ NTransient = 2
    /\ n = 3
    /\ Len(Pool) = 1

(* ------------------------------ C20 ----------------------------------- *)
\* the last POST was answered 202 with a non-empty x-blob-url
LastAcceptedWithUrl ==
    /\ resps # <<>>
    /\ Len(posts) = Len(resps)
    /\ resps[Len(resps)].status = Accepted
    /\ resps[Len(resps)].url \notin {None, ""}

\* C20: success requires that the last POST was answered 202 with a
\* non-empty x-blob-url and that the HEAD of that URL was ok; at most one
\* HEAD is sent per call, only after such a 202, and no POST follows it.
C20_SuccessOnlyAfterVerifiedHead ==
    /\ [] ( /\ file_uploaded =>
                 /\ LastAcceptedWithUrl
                 /\ Len(head_resps) = 1
                 /\ head_resps[1] < 400
            /\ Len(heads) <= 1
            /\ heads # <<>> =>
                 /\ LastAcceptedWithUrl
                 /\ heads[1] = resps[Len(resps)].url )
    /\ [][heads # <<>> => posts' = posts]_vars

C20_Witness ==
    /\ pc = "done"
    /\ file_uploaded
    /\ Len(posts) = 3
    /\ heads = <<"https://cdn/y">>

(* ------------------------------ C13 ----------------------------------- *)
\* C13: when upload_dir is over, upload_file was called for every regular
\* file of the directory, however the uploads of the earlier files ended.
C13_EveryFileVisited == dpc \in {"done", "raised"} => started = dir_files

(* ------------------------------ C14 ----------------------------------- *)
\* C14: when upload_dir is over, exactly one upload sequence was started
\* for each regular file directly inside the directory and none for a
\* subdirectory.
C14_OneSequencePerFile ==
    dpc \in {"done", "raised"} =>
        /\ \A i \in DOMAIN entries :
             Count(started, EntryName(i)) = (IF entries[i] = "file" THEN 1 ELSE 0)
        /\ Len(started) = Count(entries, "file")

(* ------------------------------ C15 ----------------------------------- *)
\* C15: in upload_dir every call of upload_file starts with the whole host
\* list of the caller, shuffled anew, and with attempt number 1, whatever
\* the earlier files consumed; the files are taken in order, a file is
\* started only when the call for the previous one has returned, and every
\* request sent is for the file of the current call.
C15_IndependentSequentialCalls ==
    /\ [] ( /\ heap[hosts] = hosts0
            /\ (dpc = "call" /\ host_pool # None) =>
                 /\ \A h \in Hosts : Count(shuffled, h) = Count(hosts0, h)
                 /\ Len(shuffled) = Len(hosts0)
                 /\ (pc = "loop" /\ host = None) => (n = 1 /\ Pool = shuffled)
            /\ started = SubSeq(dir_files, 1, fidx)
            /\ \A i \in DOMAIN posts : posts[i].file = started[Len(started)]
            /\ (posts # <<>> \/ heads # <<>>) => dpc \in {"call", "iter", "done", "raised"} )
    /\ [][ /\ started' # started => (dpc = "iter" /\ pc \in {"idle", "done"})
           /\ (posts' # posts /\ posts' # <<>>) => dpc = "call"
           /\ (heads' # heads /\ heads' # <<>>) => dpc = "call" ]_vars

C15_Witness ==
    /\ dpc = "call"
    /\ Len(started) = 2
    /\ prev_posts = 2
    /\ pc = "loop"
    /\ host = None
    /\ n = 1
    /\ Len(Pool) = 2

====
